---- MODULE Spec2Model ----
\* A model of articles_scrapper.py: the listing flattener, the paragraph
\* budget of the article extractor, and the concurrent per-category crawl
\* pipelines that write to the store.
EXTENDS Integers, Sequences, FiniteSets, TLC

VARIABLES
    articles_list,     \* decoded listing JSON handed to the flattening code
    flat,              \* outcome of the flattening of articles_list
    all_paragraphs,    \* lengths of the direct-child <p> texts of one section
    section_content,   \* outcome of the paragraph loop on all_paragraphs
    world,             \* per category: what the site answers for its listing and articles
    pc,                \* per category: where its store_to_db task stands
    refs,              \* per category: articles_lists, the flattened listing
    idx,               \* per category: iteration of the loop over articles_lists
    articles_obj,      \* per category: the parsed article being stored
    sec,               \* per category: iteration of the loop over article_paragraphs
    lastrowid,         \* per category: cur.lastrowid of the article's cursor
    add_article_bound, \* per category: whether the local add_article is assigned
    content,           \* the rows of table content, by the category that wrote them
    articles,          \* the rows of table articles, by the category that wrote them
    log,               \* per category: its requests and statements, in order
    session,           \* the shared ClientSession: "open" or "closed"
    main,              \* where bulk_crawl_and_store under asyncio.run stands
    rejections,        \* store statements the store may still reject
    root_page,         \* what the site answers for ROOT_URL
    main_page,         \* __main__: the value get_page returned
    categories,        \* __main__: the value parse_categories returned
    tasks,             \* bulk_crawl_and_store: the tasks list
    boot,              \* where __main__ stands
    root_log           \* the messages logged by parse_categories, in order

flattenVars == <<articles_list, flat>>
contentVars == <<all_paragraphs, section_content>>
taskVars == <<pc, refs, idx, articles_obj, sec, lastrowid, add_article_bound>>
storeVars == <<content, articles, rejections>>
crawlVars == <<world, taskVars, storeVars, log, session, main>>
startVars == <<root_page, main_page, categories, tasks, boot, root_log>>
vars == <<flattenVars, contentVars, crawlVars, startVars>>

\* ------------------------------------------------------------------ bounds
\* Largest number of nodes below the listing root in a generated listing.
MaxNodes == 4
\* Largest number of paragraphs in a generated section.
MaxParagraphs == 3
\* Largest number of articles in the listing of a category.
MaxArticles == 2
\* Largest number of statements the store rejects in one run.
MaxRejections == 1
\* Largest number of children of the navigation container in a generated page.
MaxChildren == 3

\* ------------------------------------------------------------- constants
MAX_PARAGRAPH_LENGTH == 2048
SEP == " ^ "
NEW_ARTICLE == "New article"
HREF_PREFIX == "tk.koti?p_artikkeli="
HREF_SUFFIX == "&p_teos=far"
\* An href that carries no p_artikkeli parameter.
HREF_NO_ID == "tk.koti?p_teos=far"
ROOT_TEXT == "Root"
None == "None"

\* ------------------------------------------------------ listing fixtures
RECURSIVE Label(_)
\* The text given to the node at a path: "n" followed by the child indices.
Label(path) ==
    IF path = <<>> THEN "n" ELSE Label(SubSeq(path, 1, Len(path) - 1)) \o ToString(path[Len(path)])

HrefOf(path) == HREF_PREFIX \o Label(path) \o HREF_SUFFIX

\* The leaves a listing may hold at a path: a real article, the placeholder,
\* a leaf without href, and a node without 'text'.
Leaves(path) ==
    { [text |-> Label(path), href |-> HrefOf(path)],
      [text |-> NEW_ARTICLE, href |-> HrefOf(path)],
      [text |-> Label(path)],
      [href |-> HrefOf(path)] }

RECURSIVE Forests(_, _, _)
\* Every sequence of sibling nodes, the first at path prefix \o <<k>>, holding
\* at most n nodes in all.
Forests(prefix, k, n) ==
    {<<>>} \cup
    UNION { UNION { { <<t>> \o rest : rest \in Forests(prefix, k + 1, n - m) } :
                    t \in Leaves(prefix \o <<k>>) \cup
                          { [text |-> Label(prefix \o <<k>>), nodes |-> f] :
                              f \in Forests(prefix \o <<k>>, 1, m - 1) } } :
            m \in 1..n }

\* The decoded listing documents: the empty array, a root that is itself a
\* leaf, a root without 'text', and a root with a forest below it.
ListingDocuments ==
    { <<>>,
      <<[text |-> ROOT_TEXT, href |-> HrefOf(<<>>)]>>,
      <<[nodes |-> <<>>]>> } \cup
    { <<[text |-> ROOT_TEXT, nodes |-> f]>> : f \in Forests(<<>>, 1, MaxNodes) }

\* ------------------------------------------------- ArticleListFlattener
Has(tree, key) == key \in DOMAIN tree

\* The join with its operands swapped.
JoinNamesSwapped(root_node_name, current_node_name) ==
    current_node_name \o SEP \o root_node_name

\* ' ^ '.join([root_node_name, current_node_name])
JoinNames(root_node_name, current_node_name) ==
    root_node_name \o SEP \o current_node_name

RECURSIVE recursive_article_list_processing(_, _, _)
RECURSIVE ProcessNodes(_, _, _, _)

\* The for loop over tree['nodes'] inside the try block: a child that raises
\* ends the loop, and the except clause of the enclosing call swallows it.
ProcessNodes(list_name, nodes, k, result) ==
    IF k > Len(nodes) THEN [out |-> result, raised |-> FALSE]
    ELSE LET r == recursive_article_list_processing(list_name, nodes[k], result)
         IN IF r.raised THEN [out |-> r.out, raised |-> FALSE]
            ELSE ProcessNodes(list_name, nodes, k + 1, r.out)

\* The call without the test for the "New article" placeholder.
ProcessingKeepsPlaceholder(root_node_name, tree, result) ==
    IF ~Has(tree, "text") THEN [out |-> result, raised |-> TRUE]
    ELSE IF Has(tree, "nodes")
         THEN ProcessNodes(JoinNames(root_node_name, tree.text), tree.nodes, 1, result)
         ELSE IF ~Has(tree, "href")
              THEN [out |-> result, raised |-> FALSE]
              ELSE [out |-> Append(result,
                                   [list_name |-> root_node_name,
                                    title |-> tree.text,
                                    article_href |-> tree.href]),
                    raised |-> FALSE]

\* result_article_data after the call, and whether the call raised KeyError.
recursive_article_list_processing(root_node_name, tree, result) ==
    IF ~Has(tree, "text") THEN [out |-> result, raised |-> TRUE]
    ELSE IF Has(tree, "nodes")
         THEN ProcessNodes(JoinNames(root_node_name, tree.text), tree.nodes, 1, result)
         ELSE IF tree.text = NEW_ARTICLE \/ ~Has(tree, "href")
              THEN [out |-> result, raised |-> FALSE]
              ELSE [out |-> Append(result,
                                   [list_name |-> root_node_name,
                                    title |-> tree.text,
                                    article_href |-> tree.href]),
                    raised |-> FALSE]

RECURSIVE TopLevelLoop(_, _, _, _)
\* The for loop of parse_articles_lists over articles_list[0]['nodes']: it
\* has no try block, so a child that raises ends parse_articles_lists.
TopLevelLoop(root_list_name, nodes, k, result) ==
    IF k > Len(nodes) THEN [kind |-> "list", refs |-> result]
    ELSE LET r == recursive_article_list_processing(root_list_name, nodes[k], result)
         IN IF r.raised THEN [kind |-> "raised", refs |-> <<>>]
            ELSE TopLevelLoop(root_list_name, nodes, k + 1, r.out)

\* parse_articles_lists from the decoded document on: None for an empty
\* document, KeyError when the root lacks 'text' or 'nodes'.
FlattenDocument(doc) ==
    IF doc = <<>> THEN [kind |-> "none", refs |-> <<>>]
    ELSE IF ~Has(doc[1], "text") \/ ~Has(doc[1], "nodes")
         THEN [kind |-> "raised", refs |-> <<>>]
         ELSE TopLevelLoop(doc[1].text, doc[1].nodes, 1, <<>>)

\* ------------------------------------------------------ ArticleExtractor
RECURSIVE ParagraphLoop(_, _, _, _)
RECURSIVE ParagraphLoopContinue(_, _, _, _)
\* The loop with 'continue' in place of 'break': a paragraph that does not
\* fit is skipped and later ones are still tried.
ParagraphLoopContinue(paragraphs, k, p_content, current_p_length) ==
    IF k > Len(paragraphs) THEN p_content
    ELSE IF paragraphs[k] + current_p_length > MAX_PARAGRAPH_LENGTH
         THEN ParagraphLoopContinue(paragraphs, k + 1, p_content, current_p_length)
         ELSE ParagraphLoopContinue(paragraphs, k + 1, Append(p_content, k),
                                    current_p_length + paragraphs[k])

\* The loop over all_paragraphs: the indices appended to p_content, given
\* the paragraphs' lengths.
ParagraphLoop(paragraphs, k, p_content, current_p_length) ==
    IF k > Len(paragraphs) THEN p_content
    ELSE IF paragraphs[k] + current_p_length > MAX_PARAGRAPH_LENGTH
         THEN p_content
         ELSE ParagraphLoop(paragraphs, k + 1, Append(p_content, k),
                            current_p_length + paragraphs[k])

RECURSIVE SumLengths(_, _)
\* len("".join(p_content)): the sum of the lengths of the kept paragraphs.
SumLengths(paragraphs, kept) ==
    IF kept = <<>> THEN 0
    ELSE paragraphs[Head(kept)] + SumLengths(paragraphs, Tail(kept))

SectionContent(paragraphs) ==
    LET kept == ParagraphLoop(paragraphs, 1, <<>>, 0)
    IN [kept |-> kept, length |-> SumLengths(paragraphs, kept)]


\* ---------------------------------------------------- the navigation page
\* An <a> of the navigation: its class, its href (a sequence of characters,
\* when it has one) and its text.
MainItem == [main_menu_item |-> TRUE, href |-> <<"#">>, text |-> "m1"]
SubItem == [main_menu_item |-> FALSE, href |-> <<"?", "t", "=", "f">>, text |-> "s1"]
SubItemTwoParams ==
    [main_menu_item |-> FALSE, href |-> <<"?", "t", "=", "g", "&", "s", "=">>, text |-> "s2"]
SubItemNoEquals == [main_menu_item |-> FALSE, href |-> <<"?", "t">>, text |-> "s3"]
SubItemNoHref == [main_menu_item |-> FALSE, text |-> "s4"]

Newline == [newline |-> TRUE, anchors |-> <<>>]
Element(anchors) == [newline |-> FALSE, anchors |-> anchors]

\* The children the navigation container may hold.
ChildKinds ==
    { Newline,
      Element(<<>>),
      Element(<<MainItem>>),
      Element(<<MainItem, SubItem>>),
      Element(<<MainItem, SubItem, SubItemTwoParams>>),
      Element(<<SubItemTwoParams>>),
      Element(<<MainItem, SubItemNoEquals>>),
      Element(<<MainItem, SubItem, SubItemNoHref>>) }

\* What ROOT_URL may answer: nothing usable, an empty body, a page without
\* the element of id 'vakionavi', or a page with it.
Unreachable == [kind |-> "unreachable"]
EmptyPage == [kind |-> "str", empty |-> TRUE, container |-> FALSE, children |-> <<>>]
PageWithoutContainer ==
    [kind |-> "str", empty |-> FALSE, container |-> FALSE, children |-> <<>>]
RootPages ==
    {Unreachable, EmptyPage, PageWithoutContainer} \cup
    { [kind |-> "str", empty |-> FALSE, container |-> TRUE, children |-> ch] :
        ch \in UNION { [1..n -> ChildKinds] : n \in 0..MaxChildren } }

Unset == [kind |-> "unset"]
NoneValue == [kind |-> None]
List(items) == [kind |-> "list", items |-> items]
UnboundName == "<unbound>"

\* ----------------------------------------------------------- parse_categories
\* get_page: the body of the response, or None after any exception.
get_page(page) == IF page = Unreachable THEN NoneValue ELSE page

\* 'not main_page': None and the empty string are falsy.
Falsy(page) == page = NoneValue \/ page.empty

\* BeautifulSoup(main_page, 'html.parser'): the outcomes of the constructor.
\* A str gives its document; for None the constructor raises or gives an
\* empty document.
BeautifulSoup(page) ==
    IF page = NoneValue
    THEN { [kind |-> "raises"], [kind |-> "soup", container |-> FALSE, children |-> <<>>] }
    ELSE { [kind |-> "soup", container |-> page.container, children |-> page.children] }

RECURSIVE split(_, _)
\* str.split(sep) on a sequence of characters.
split(str, sep) ==
    IF str = <<>> THEN << <<>> >>
    ELSE LET rest == split(Tail(str), sep)
         IN IF Head(str) = sep
            THEN << <<>> >> \o rest
            ELSE << <<Head(str)>> \o Head(rest) >> \o Tail(rest)

RECURSIVE Text(_)
\* The string of a sequence of characters.
Text(chars) == IF chars = <<>> THEN "" ELSE Head(chars) \o Text(Tail(chars))

Raised == [raised |-> TRUE]

RECURSIVE AnchorLoop(_, _, _)
\* The loop over cat.find_all("a"): a main menu item names the category, any
\* other anchor appends a descriptor. Raises on an anchor without href, on an
\* href without '=' and on cat_name read before a main menu item set it.
AnchorLoop(anchors, cat_name, categories_output) ==
    IF anchors = <<>>
    THEN [raised |-> FALSE, cat_name |-> cat_name, categories_output |-> categories_output]
    ELSE LET a == Head(anchors)
         IN IF a.main_menu_item
            THEN AnchorLoop(Tail(anchors), a.text, categories_output)
            ELSE IF "href" \notin DOMAIN a THEN Raised
            ELSE IF Len(split(a.href, "=")) < 2 THEN Raised
            ELSE IF cat_name = UnboundName THEN Raised
            ELSE AnchorLoop(Tail(anchors), cat_name,
                            Append(categories_output,
                                   [category_main |-> cat_name,
                                    subcategory_name |-> a.text,
                                    teos |-> Text(split(a.href, "=")[2])]))

RECURSIVE ChildLoop(_, _, _)
\* The loop over categories_root.children, the "\n" children skipped.
ChildLoop(children, cat_name, categories_output) ==
    IF children = <<>>
    THEN [raised |-> FALSE, cat_name |-> cat_name, categories_output |-> categories_output]
    ELSE IF Head(children).newline
         THEN ChildLoop(Tail(children), cat_name, categories_output)
         ELSE LET r == AnchorLoop(Head(children).anchors, cat_name, categories_output)
              IN IF r.raised THEN Raised
                 ELSE ChildLoop(Tail(children), r.cat_name, r.categories_output)

\* parse_categories from the soup on: the messages it logs and the value it
\* returns. Without the container categories_root is None and reading its
\* children raises inside the try block.
parse_categories(page, bs) ==
    LET empty_msg == IF Falsy(page) THEN <<"Main page is empty">> ELSE <<>>
        r == IF bs.container THEN ChildLoop(bs.children, UnboundName, <<>>) ELSE Raised
    IN IF r.raised
       THEN [logged |-> empty_msg \o <<"Parsing Exception occurred">>,
             returns |-> NoneValue]
       ELSE [logged |-> empty_msg \o <<"Successfully Parsed">>,
             returns |-> List(r.categories_output)]

StartupStart ==
    /\ main_page = Unset
    /\ categories = Unset
    /\ tasks = <<>>
    /\ boot = "get_page"
    /\ root_log = <<>>

\* The startup variables of a machine that starts past __main__.
NoStartup ==
    /\ root_page = Unreachable
    /\ StartupStart

\* ------------------------------------------------------- the crawled site
Cats == {"A", "B"}

\* What the site holds for one listed article: whether its page can be
\* fetched, whether its href carries p_artikkeli, whether the page has the
\* element 'duo-article', a keywords meta element, and how many sections.
Good == [fetch |-> TRUE, match |-> TRUE, root |-> TRUE, keywords |-> TRUE, nsec |-> 2]
NoKeywords == [Good EXCEPT !.keywords = FALSE, !.nsec = 1]
Unfetchable == [Good EXCEPT !.fetch = FALSE]
NoIdHref == [Good EXCEPT !.match = FALSE]
NoRoot == [Good EXCEPT !.root = FALSE]
NoSections == [Good EXCEPT !.nsec = 0]
ArticleKinds == {Good, NoKeywords, Unfetchable, NoIdHref, NoRoot, NoSections}

\* The ways a listing request ends without a usable document.
ListingFailures == {"transport_error", "bad_status", "not_json", "bad_json"}

RECURSIVE SeqsUpTo(_, _)
SeqsUpTo(S, n) ==
    IF n = 0 THEN {<<>>}
    ELSE LET shorter == SeqsUpTo(S, n - 1)
         IN shorter \cup { Append(q, x) : q \in shorter, x \in S }

\* The answers of the site for one category: its listing and its articles.
CategoryWorlds ==
    { [listing |-> k, arts |-> <<>>] :
        k \in ListingFailures \cup {"json_empty", "json_no_text"} } \cup
    { [listing |-> "json", arts |-> a] : a \in SeqsUpTo(ArticleKinds, MaxArticles) }

\* The answers for the second category, the bystander of the first: a failed
\* listing, one good article, or two.
PlainWorlds ==
    { [listing |-> "transport_error", arts |-> <<>>],
      [listing |-> "json", arts |-> <<Good>>],
      [listing |-> "json", arts |-> <<Good, Good>>] }

\* The decoded listing of a category: one leaf per article below the root.
ListingDocument(w) ==
    IF w.listing = "json_empty" THEN <<>>
    ELSE IF w.listing = "json_no_text"
         THEN <<[text |-> ROOT_TEXT, nodes |-> <<[href |-> HrefOf(<<1>>)]>>]>>
         ELSE <<[text |-> ROOT_TEXT,
                 nodes |-> [i \in 1..Len(w.arts) |->
                              [text |-> Label(<<i>>),
                               href |-> IF w.arts[i].match THEN HrefOf(<<i>>)
                                        ELSE HREF_NO_ID]]]>>

\* ------------------------------------------------------------ the fetches
\* fetch_page on the listing URL, then the content-type test of
\* fetch_articles_list_page: whether a body comes back.
fetch_articles_list_page(w, open) ==
    open /\ w.listing \notin {"transport_error", "bad_status", "not_json"}

\* A listing whose decode error is not caught.
ParseListingUncaught(w, open) ==
    IF ~fetch_articles_list_page(w, open) THEN [kind |-> "none", refs |-> <<>>]
    ELSE IF w.listing = "bad_json" THEN [kind |-> "raised", refs |-> <<>>]
         ELSE FlattenDocument(ListingDocument(w))

\* parse_articles_lists: None without a body or when json.loads fails, else
\* the flattening of the document.
parse_articles_lists(w, open) ==
    IF ~fetch_articles_list_page(w, open) THEN [kind |-> "none", refs |-> <<>>]
    ELSE IF w.listing = "bad_json" THEN [kind |-> "none", refs |-> <<>>]
         ELSE FlattenDocument(ListingDocument(w))

\* re.search(r'p_artikkeli=(\w+)', href): the id, or None without a match.
re_search(href) ==
    IF \E i \in 1..MaxArticles : href = HrefOf(<<i>>)
    THEN Label(<<CHOOSE i \in 1..MaxArticles : href = HrefOf(<<i>>)>>)
    ELSE None

\* The loop over articles_lists taken backwards.
ArticleAtReversed(list, k) == Len(list) - k + 1

\* The position in articles_lists of the article of the k-th iteration of
\* 'for article in articles_lists'.
ArticleAt(list, k) == k

\* What the site holds for a ref of a category.
Held(c, ref) ==
    world[c].arts[CHOOSE i \in 1..Len(world[c].arts) : Label(<<i>>) = ref.title]

\* The dict parse_article yields: 'keywords' only with the meta element,
\* 'article_paragraphs' only with one section or more.
ParsedArticle(ref, held) ==
    [list_name |-> ref.list_name, title |-> ref.title,
     article_id |-> re_search(ref.article_href)]
    @@ (IF held.keywords THEN [keywords |-> "kw"] ELSE <<>>)
    @@ (IF held.nsec > 0
        THEN [article_paragraphs |-> [n \in 1..held.nsec |-> [name |-> "h1", h2 |-> n]]]
        ELSE <<>>)

NoArticle == [title |-> None]
NoRow == [table |-> None, cat |-> None, n |-> 0]

Event(op, art, s, ok) == [op |-> op, art |-> art, sec |-> s, ok |-> ok]

\* The iteration after the k-th of the loop over articles_lists.
Continue(c, k) == IF k + 1 > Len(refs[c]) THEN "done" ELSE "fetch_article"

\* -------------------------------------------------- one category's pipeline
Running == main # "exited"

\* store_to_db up to the first article request: the listing request,
\* parse_articles_lists and the test of its result in fetch_articles_page.
FetchListing(c) ==
    /\ Running /\ pc[c] = "start"
    /\ LET r == parse_articles_lists(world[c], session = "open")
       IN /\ refs' = [refs EXCEPT ![c] = r.refs]
          /\ pc' = [pc EXCEPT ![c] =
                       IF r.kind = "raised" THEN "raised"
                       ELSE IF r.refs = <<>> THEN "done" ELSE "fetch_article"]
          /\ idx' = [idx EXCEPT ![c] = 1]
    /\ log' = [log EXCEPT ![c] = Append(@, Event("get_listing", 0, 0,
                                   fetch_articles_list_page(world[c], session = "open")))]
    /\ UNCHANGED <<world, articles_obj, sec, lastrowid, add_article_bound,
                   storeVars, session, main, flattenVars, contentVars, startVars>>

\* The loop iteration with a retry: a failed request is issued again.
FetchArticleRetry(c) ==
    /\ Running /\ pc[c] = "fetch_article"
    /\ LET k == idx[c]
           pos == ArticleAt(refs[c], k)
           ref == refs[c][pos]
           held == Held(c, ref)
           html == session = "open" /\ held.fetch
       IN /\ log' = [log EXCEPT ![c] = Append(@, Event("get_article", pos, 0, html))]
          /\ IF ~html
             THEN UNCHANGED <<pc, idx, articles_obj>>
             ELSE IF re_search(ref.article_href) = None
             THEN /\ pc' = [pc EXCEPT ![c] = "done"]
                  /\ UNCHANGED <<idx, articles_obj>>
             ELSE IF ~held.root
             THEN /\ pc' = [pc EXCEPT ![c] = "raised"]
                  /\ UNCHANGED <<idx, articles_obj>>
             ELSE /\ pc' = [pc EXCEPT ![c] = "open_store"]
                  /\ articles_obj' = [articles_obj EXCEPT ![c] = ParsedArticle(ref, held)]
                  /\ UNCHANGED idx
    /\ UNCHANGED <<world, refs, sec, lastrowid, add_article_bound,
                   storeVars, session, main, flattenVars, contentVars, startVars>>

\* One iteration of the loop of fetch_articles_page, with the body of the
\* loop of parse_article when a page was obtained.
FetchArticle(c) ==
    /\ Running /\ pc[c] = "fetch_article"
    /\ LET k == idx[c]
           pos == ArticleAt(refs[c], k)
           ref == refs[c][pos]
           held == Held(c, ref)
           html == session = "open" /\ held.fetch
       IN /\ log' = [log EXCEPT ![c] = Append(@, Event("get_article", pos, 0, html))]
          /\ IF ~html
             THEN /\ pc' = [pc EXCEPT ![c] = Continue(c, k)]
                  /\ idx' = [idx EXCEPT ![c] = k + 1]
                  /\ UNCHANGED articles_obj
             ELSE IF re_search(ref.article_href) = None
             THEN /\ pc' = [pc EXCEPT ![c] = "done"]
                  /\ UNCHANGED <<idx, articles_obj>>
             ELSE IF ~held.root
             THEN /\ pc' = [pc EXCEPT ![c] = "raised"]
                  /\ UNCHANGED <<idx, articles_obj>>
             ELSE /\ pc' = [pc EXCEPT ![c] = "open_store"]
                  /\ articles_obj' = [articles_obj EXCEPT ![c] = ParsedArticle(ref, held)]
                  /\ UNCHANGED idx
    /\ UNCHANGED <<world, refs, sec, lastrowid, add_article_bound,
                   storeVars, session, main, flattenVars, contentVars, startVars>>

\* The pool, connection and cursor of one article, the two CREATE TABLE
\* statements and the entry of the loop over article_paragraphs.
OpenStore(c) ==
    /\ Running /\ pc[c] = "open_store"
    /\ \/ /\ pc' = [pc EXCEPT ![c] =
                       IF "article_paragraphs" \in DOMAIN articles_obj[c]
                       THEN "insert_content" ELSE "raised"]
          /\ log' = [log EXCEPT ![c] = Append(@, Event("create_tables", ArticleAt(refs[c], idx[c]), 0, TRUE))]
          /\ UNCHANGED rejections
       \/ /\ rejections > 0
          /\ rejections' = rejections - 1
          /\ pc' = [pc EXCEPT ![c] = "raised"]
          /\ log' = [log EXCEPT ![c] = Append(@, Event("create_tables", ArticleAt(refs[c], idx[c]), 0, FALSE))]
    /\ sec' = [sec EXCEPT ![c] = 1]
    /\ lastrowid' = [lastrowid EXCEPT ![c] = NoRow]
    /\ UNCHANGED <<world, refs, idx, articles_obj, add_article_bound, content, articles,
                   session, main, flattenVars, contentVars, startVars>>

\* The first try block of the loop body, with the except clause uncaught.
InsertContentUncaught(c) ==
    /\ Running /\ pc[c] = "insert_content"
    /\ LET pos == ArticleAt(refs[c], idx[c])
       IN \/ /\ LET id == [table |-> "content", cat |-> c, n |-> Len(content[c]) + 1]
                IN /\ content' = [content EXCEPT ![c] =
                                     Append(@, [id |-> id, art |-> pos, sec |-> sec[c]])]
                   /\ lastrowid' = [lastrowid EXCEPT ![c] = id]
             /\ log' = [log EXCEPT ![c] = Append(@, Event("insert_content", pos, sec[c], TRUE))]
             /\ pc' = [pc EXCEPT ![c] = "insert_meta"]
             /\ UNCHANGED rejections
          \/ /\ rejections > 0
             /\ rejections' = rejections - 1
             /\ \E id \in {lastrowid[c], NoRow} : lastrowid' = [lastrowid EXCEPT ![c] = id]
             /\ log' = [log EXCEPT ![c] = Append(@, Event("insert_content", pos, sec[c], FALSE))]
             /\ pc' = [pc EXCEPT ![c] = "raised"]
             /\ UNCHANGED content
    /\ UNCHANGED <<world, refs, idx, articles_obj, sec, add_article_bound, articles,
                   session, main, flattenVars, contentVars, startVars>>

\* The first try block of the loop body: INSERT INTO content and commit. A
\* rejected statement is logged; it leaves cur.lastrowid as it was or cleared.
InsertContent(c) ==
    /\ Running /\ pc[c] = "insert_content"
    /\ LET pos == ArticleAt(refs[c], idx[c])
       IN \/ /\ LET id == [table |-> "content", cat |-> c, n |-> Len(content[c]) + 1]
                IN /\ content' = [content EXCEPT ![c] =
                                     Append(@, [id |-> id, art |-> pos, sec |-> sec[c]])]
                   /\ lastrowid' = [lastrowid EXCEPT ![c] = id]
             /\ log' = [log EXCEPT ![c] = Append(@, Event("insert_content", pos, sec[c], TRUE))]
             /\ UNCHANGED rejections
          \/ /\ rejections > 0
             /\ rejections' = rejections - 1
             /\ \E id \in {lastrowid[c], NoRow} : lastrowid' = [lastrowid EXCEPT ![c] = id]
             /\ log' = [log EXCEPT ![c] = Append(@, Event("insert_content", pos, sec[c], FALSE))]
             /\ UNCHANGED content
    /\ pc' = [pc EXCEPT ![c] = "insert_meta"]
    /\ UNCHANGED <<world, refs, idx, articles_obj, sec, add_article_bound, articles,
                   session, main, flattenVars, contentVars, startVars>>

\* The end of one iteration of the loop over article_paragraphs: the next
\* section, or the next iteration of the loop over articles_lists.
EndOfSection(c) ==
    IF sec[c] < Len(articles_obj[c].article_paragraphs)
    THEN /\ pc' = [pc EXCEPT ![c] = "insert_content"]
         /\ sec' = [sec EXCEPT ![c] = @ + 1]
         /\ UNCHANGED idx
    ELSE /\ pc' = [pc EXCEPT ![c] = Continue(c, idx[c])]
         /\ idx' = [idx EXCEPT ![c] = @ + 1]
         /\ UNCHANGED sec

\* The second try block of the loop body: the statement is built from the
\* article (KeyError without 'keywords') and cur.lastrowid, then executed and
\* committed. The except clause reads add_article, which is unassigned when
\* no statement was built before in this task.
InsertMeta(c) ==
    /\ Running /\ pc[c] = "insert_meta"
    /\ LET pos == ArticleAt(refs[c], idx[c])
       IN IF "keywords" \notin DOMAIN articles_obj[c]
          THEN /\ IF add_article_bound[c]
                  THEN EndOfSection(c)
                  ELSE /\ pc' = [pc EXCEPT ![c] = "raised"]
                       /\ UNCHANGED <<idx, sec>>
               /\ UNCHANGED <<log, articles, lastrowid, rejections, add_article_bound>>
          ELSE /\ add_article_bound' = [add_article_bound EXCEPT ![c] = TRUE]
               /\ EndOfSection(c)
               /\ \/ /\ lastrowid[c] # NoRow
                     /\ LET id == [table |-> "articles", cat |-> c, n |-> Len(articles[c]) + 1]
                        IN /\ articles' = [articles EXCEPT ![c] =
                                  Append(@, [id |-> id, art |-> pos, sec |-> sec[c],
                                             content_id |-> lastrowid[c]])]
                           /\ lastrowid' = [lastrowid EXCEPT ![c] = id]
                     /\ log' = [log EXCEPT ![c] = Append(@, Event("insert_meta", pos, sec[c], TRUE))]
                     /\ UNCHANGED rejections
                  \/ /\ lastrowid[c] = NoRow \/ rejections > 0
                     /\ rejections' = IF lastrowid[c] = NoRow THEN rejections ELSE rejections - 1
                     /\ \E id \in {lastrowid[c], NoRow} : lastrowid' = [lastrowid EXCEPT ![c] = id]
                     /\ log' = [log EXCEPT ![c] = Append(@, Event("insert_meta", pos, sec[c], FALSE))]
                     /\ UNCHANGED articles
    /\ UNCHANGED <<world, refs, articles_obj, content, session, main,
                   flattenVars, contentVars, startVars>>

\* ------------------------------------------------- bulk_crawl_and_store
\* asyncio.gather hands the first exception of a task to bulk_crawl_and_store,
\* which leaves the 'async with ClientSession()' block: the session closes.
GatherRaises ==
    /\ main = "gathering"
    /\ \E c \in Cats : pc[c] = "raised"
    /\ main' = "failed"
    /\ session' = "closed"
    /\ UNCHANGED <<world, taskVars, storeVars, log, flattenVars, contentVars, startVars>>

\* Every task has returned: gather returns and the session closes.
GatherReturns ==
    /\ main = "gathering"
    /\ \A c \in Cats : pc[c] = "done"
    /\ main' = "returned"
    /\ session' = "closed"
    /\ UNCHANGED <<world, taskVars, storeVars, log, flattenVars, contentVars, startVars>>

\* asyncio.run ends: the tasks still pending are cancelled with the loop.
Teardown ==
    /\ main \in {"failed", "returned"}
    /\ main' = "exited"
    /\ pc' = [c \in Cats |-> IF pc[c] \in {"done", "raised"} THEN pc[c] ELSE "cancelled"]
    /\ UNCHANGED <<world, refs, idx, articles_obj, sec, lastrowid, add_article_bound,
                   storeVars, log, session, flattenVars, contentVars, startVars>>

CrawlStart ==
    /\ pc = [c \in Cats |-> "start"]
    /\ refs = [c \in Cats |-> <<>>]
    /\ idx = [c \in Cats |-> 1]
    /\ articles_obj = [c \in Cats |-> NoArticle]
    /\ sec = [c \in Cats |-> 1]
    /\ lastrowid = [c \in Cats |-> NoRow]
    /\ add_article_bound = [c \in Cats |-> FALSE]
    /\ content = [c \in Cats |-> <<>>]
    /\ articles = [c \in Cats |-> <<>>]
    /\ log = [c \in Cats |-> <<>>]
    /\ session = "open"
    /\ main = "gathering"

\* The crawl variables of a machine that does not crawl.
NoCrawl ==
    /\ world = [c \in Cats |-> [listing |-> "json_empty", arts |-> <<>>]]
    /\ rejections = 0
    /\ CrawlStart

Pending == [kind |-> "pending"]

Init ==
    /\ world \in { [A |-> a, B |-> b] : a \in CategoryWorlds, b \in PlainWorlds }
    /\ rejections = MaxRejections
    /\ CrawlStart
    /\ articles_list = <<>>
    /\ flat = Pending
    /\ all_paragraphs = <<>>
    /\ section_content = Pending
    /\ NoStartup

Next ==
    \/ \E c \in Cats : FetchListing(c)
    \/ \E c \in Cats : FetchArticle(c)
    \/ \E c \in Cats : OpenStore(c)
    \/ \E c \in Cats : InsertContent(c)
    \/ \E c \in Cats : InsertMeta(c)
    \/ GatherRaises
    \/ GatherReturns
    \/ Teardown

Spec == Init /\ [][Next]_vars


\* ------------------------------------------------- properties of the crawl
Exited == main = "exited"
Inserts == {"insert_content", "insert_meta"}
Statements == Inserts \cup {"create_tables"}
Events(c) == { log[c][p] : p \in 1..Len(log[c]) }
Rows(table, c) == { table[c][p] : p \in 1..Len(table[c]) }
Listed(c) == 1..Len(world[c].arts)

\* The store accepted every statement category c has sent so far.
AllAccepted(c) == \A e \in Events(c) : e.op \in Statements => e.ok

\* Every section of the article at a position has its two rows.
FullyPersisted(c, pos) ==
    \A n \in 1..world[c].arts[pos].nsec :
        /\ \E r \in Rows(content, c) : r.art = pos /\ r.sec = n
        /\ \E r \in Rows(articles, c) : r.art = pos /\ r.sec = n

\* Nothing in the category's own listing, articles or statements fails.
OwnFaultFree(c) ==
    /\ world[c].listing = "json"
    /\ \A i \in Listed(c) : world[c].arts[i] = Good
    /\ AllAccepted(c)

\* The page of an article without the root element has reached parse_article.
ExtractionFailed(c) ==
    \E e \in Events(c) :
        /\ e.op = "get_article" /\ e.ok
        /\ world[c].arts[e.art].match /\ ~world[c].arts[e.art].root

\* C1: when the pipeline of a category fails with a listing fetch error, a
\* listing decode error or an extraction error, the pipeline of every other
\* category still runs to its end and persists each of its articles.
C1_SiblingsSurvive ==
    Exited =>
        \A a \in Cats : \A b \in Cats \ {a} :
            ((world[a].listing \in ListingFailures \/ ExtractionFailed(a)) /\ OwnFaultFree(b))
                => (pc[b] = "done" /\ \A i \in Listed(b) : FullyPersisted(b, i))

C3_LaterArticlesSurvive ==
    Exited =>
        \A c \in Cats : \A i \in Listed(c) : \A j \in Listed(c) :
            ( /\ i < j
              /\ world[c].arts[i] \in {Unfetchable, NoIdHref, NoRoot}
              /\ \A k \in Listed(c) \ {i} : world[c].arts[k] = Good
              /\ AllAccepted(c)
              /\ \A b \in Cats \ {c} : OwnFaultFree(b) )
                => FullyPersisted(c, j)

\* The accepted inserts of category c for the article at a position, in order.
AcceptedInserts(c, pos) ==
    LET Mine(e) == e.op \in Inserts /\ e.art = pos /\ e.ok
        mine == SelectSeq(log[c], Mine)
    IN [p \in 1..Len(mine) |-> <<mine[p].op, mine[p].sec>>]

\* Content row then metadata row, for sections 1..k.
RowPairs(k) ==
    [p \in 1..(2 * k) |-> IF p % 2 = 1 THEN <<"insert_content", (p + 1) \div 2>>
                          ELSE <<"insert_meta", p \div 2>>]

\* store_to_db received the article at a position and is through with it.
Stored(c, pos) ==
    /\ \E e \in Events(c) : e.op = "create_tables" /\ e.art = pos
    /\ idx[c] > pos \/ pc[c] \in {"done", "raised"}

\* C8: for an extracted article with k sections, with or without keywords,
\* and a store that accepts every statement, exactly k content rows and k
\* metadata rows are written, each metadata row right after its content row.
C8_RowPairPerSection ==
    \A c \in Cats : \A pos \in Listed(c) :
        (Stored(c, pos) /\ AllAccepted(c))
            => AcceptedInserts(c, pos) = RowPairs(world[c].arts[pos].nsec)

\* The same, for the articles that carry keywords.
C8_WithKeywords ==
    \A c \in Cats : \A pos \in Listed(c) :
        (Stored(c, pos) /\ AllAccepted(c) /\ world[c].arts[pos].keywords)
            => AcceptedInserts(c, pos) = RowPairs(world[c].arts[pos].nsec)

\* C9: a rejected insert does not end the pipeline: after a rejected content
\* insert the metadata insert of the same section is next, and after a
\* rejected metadata insert the next section, the next article or the normal
\* end of the pipeline is next.
C9_RejectedInsertGoesOn ==
    [][\A c \in Cats :
         (Len(log'[c]) = Len(log[c]) + 1
            /\ log'[c][Len(log'[c])].op \in Inserts
            /\ ~log'[c][Len(log'[c])].ok)
         => LET e == log'[c][Len(log'[c])]
                k == Len(articles_obj[c].article_paragraphs)
            IN IF e.op = "insert_content"
               THEN pc'[c] = "insert_meta" /\ sec'[c] = sec[c] /\ idx'[c] = idx[c]
               ELSE IF sec[c] < k
                    THEN pc'[c] = "insert_content" /\ sec'[c] = sec[c] + 1 /\ idx'[c] = idx[c]
                    ELSE IF idx[c] < Len(refs[c])
                         THEN pc'[c] = "fetch_article" /\ idx'[c] = idx[c] + 1
                         ELSE pc'[c] = "done"]_vars

\* A content insert was rejected, and afterwards the same category had
\* inserts accepted for a later section and for a later article.
C9_Witness ==
    \E c \in Cats : \E p \in 1..Len(log[c]) :
        /\ log[c][p].op = "insert_content" /\ ~log[c][p].ok
        /\ \E q \in (p + 1)..Len(log[c]) :
              /\ log[c][q].op = "insert_content" /\ log[c][q].ok
              /\ log[c][q].art = log[c][p].art /\ log[c][q].sec > log[c][p].sec
        /\ \E q \in (p + 1)..Len(log[c]) :
              /\ log[c][q].op = "insert_meta" /\ log[c][q].ok
              /\ log[c][q].art > log[c][p].art

\* C10: within a category the articles are requested in the order of the
\* flattened list, and every statement for an article is sent before the
\* page of a later article is requested.
C10_OrderWithinCategory ==
    \A c \in Cats :
        LET gets == { q \in 1..Len(log[c]) : log[c][q].op = "get_article" }
        IN \A q \in gets :
              /\ \A p \in gets : p < q => log[c][p].art < log[c][q].art
              /\ \A p \in 1..Len(log[c]) :
                    (log[c][p].op \in Statements /\ log[c][p].art < log[c][q].art) => p < q

\* Both categories are between the content insert and the metadata insert of
\* a section of their second article, each with its first article's rows
\* written: their fetches and writes have interleaved.
C10_Witness ==
    \A c \in Cats :
        /\ pc[c] = "insert_meta" /\ idx[c] = 2
        /\ FullyPersisted(c, 1)
        /\ \E e \in Events(c) : e.op = "get_article" /\ e.art = 2

\* The positions in the log of category c of the requests for one URL.
Requests(c, op, pos) ==
    { p \in 1..Len(log[c]) : log[c][p].op = op /\ log[c][p].art = pos }

\* C12: there are no retries: the listing URL of a category is requested at
\* most once, and the article URL of each flattened ref at most once, whether
\* the request succeeds or fails.
C12_NoRetries ==
    \A c \in Cats :
        /\ Cardinality(Requests(c, "get_listing", 0)) <= 1
        /\ \A pos \in 1..Len(refs[c]) : Cardinality(Requests(c, "get_article", pos)) <= 1

\* A category has ended after an article request that failed and a later one
\* that succeeded, and the other category after a listing request that failed.
C12_Witness ==
    /\ \A c \in Cats : pc[c] = "done"
    /\ \E c \in Cats : \E p \in 1..Len(log[c]) : \E q \in 1..Len(log[c]) :
          /\ p < q
          /\ log[c][p].op = "get_article" /\ ~log[c][p].ok
          /\ log[c][q].op = "get_article" /\ log[c][q].ok
    /\ \E c \in Cats : log[c] = <<Event("get_listing", 0, 0, FALSE)>>

\* C13: every metadata row carries as content_id the id of the content row
\* inserted for the same section of the same article; no metadata row carries
\* an id the cursor kept from an earlier statement.
C13_MetadataLinksOwnContent ==
    \A c \in Cats : \A m \in Rows(articles, c) :
        \E r \in Rows(content, c) :
            r.id = m.content_id /\ r.art = m.art /\ r.sec = m.sec

Finished(c) == pc[c] \in {"done", "raised", "cancelled"}

\* C14: the session shared by the category pipelines is closed only after
\* every pipeline has finished: no pipeline is still running, or about to
\* issue a fetch, while the session is closed.
C14_SessionOutlivesPipelines ==
    session = "closed" => \A c \in Cats : Finished(c)

\* C15: an article with the root element and no 'section' element is handled
\* without error: no row is written for it, the pipeline of its category goes
\* on to the other articles, and no exception leaves bulk_crawl_and_store.
C15_NoSectionsHandled ==
    \A c \in Cats : \A i \in Listed(c) :
        ( /\ world[c].listing = "json"
          /\ world[c].arts[i] = NoSections
          /\ \A k \in Listed(c) \ {i} : world[c].arts[k] = Good
          /\ AllAccepted(c) )
            => /\ pc[c] # "raised"
               /\ \A r \in Rows(content, c) \cup Rows(articles, c) : r.art # i
               /\ (\A b \in Cats \ {c} : OwnFaultFree(b))
                     => /\ main # "failed"
                        /\ Exited => \A j \in Listed(c) \ {i} : FullyPersisted(c, j)

\* ------------------------------------------------ flattening as a machine

InitFlatten ==
    /\ articles_list \in ListingDocuments
    /\ flat = Pending
    /\ all_paragraphs = <<>>
    /\ section_content = Pending
    /\ NoCrawl
    /\ NoStartup

Flatten ==
    /\ flat = Pending
    /\ flat' = FlattenDocument(articles_list)
    /\ UNCHANGED <<articles_list, contentVars, crawlVars, startVars>>

NextFlatten == Flatten

SpecFlatten == InitFlatten /\ [][NextFlatten]_vars

\* ---------------------------------------------- properties of the flattener
RECURSIVE NodeAt(_, _)
\* The node reached from a node by following child indices.
NodeAt(node, path) ==
    IF path = <<>> THEN node ELSE NodeAt(node.nodes[Head(path)], Tail(path))

RECURSIVE PathsBelow(_, _)
\* The paths of every node of the subtree of a node that sits at a path.
PathsBelow(node, path) ==
    {path} \cup
    IF Has(node, "nodes")
    THEN UNION { PathsBelow(node.nodes[i], Append(path, i)) : i \in 1..Len(node.nodes) }
    ELSE {}

IsPrefix(p, q) == Len(p) <= Len(q) /\ SubSeq(q, 1, Len(p)) = p

\* p comes before q in document order (depth first, left to right).
Before(p, q) ==
    \/ p # q /\ IsPrefix(p, q)
    \/ \E i \in 1..Len(p) :
          /\ i <= Len(q)
          /\ SubSeq(p, 1, i - 1) = SubSeq(q, 1, i - 1)
          /\ p[i] < q[i]

RECURSIVE InDocumentOrder(_)
\* A set of paths as the sequence of its members in document order.
InDocumentOrder(S) ==
    IF S = {} THEN <<>>
    ELSE LET first == CHOOSE p \in S : \A q \in S \ {p} : Before(p, q)
         IN <<first>> \o InDocumentOrder(S \ {first})

Root == articles_list[1]
IsTree == articles_list # <<>>
NodePaths == PathsBelow(Root, <<>>)
IsLeaf(p) == ~Has(NodeAt(Root, p), "nodes")
WellFormed == IsTree /\ \A p \in NodePaths : Has(NodeAt(Root, p), "text")
Malformed == { p \in NodePaths : ~Has(NodeAt(Root, p), "text") }

\* The leaves the listing asks to be emitted: with an href, not the placeholder.
IsArticleLeaf(p) ==
    LET n == NodeAt(Root, p)
    IN IsLeaf(p) /\ Has(n, "text") /\ Has(n, "href") /\ n.text # NEW_ARTICLE

ArticleLeaves == { p \in NodePaths : IsArticleLeaf(p) }

\* The title and href of the article leaves, in document order.
LeavesInOrder ==
    LET ps == InDocumentOrder(ArticleLeaves)
    IN [i \in 1..Len(ps) |-> <<NodeAt(Root, ps[i]).text, NodeAt(Root, ps[i]).href>>]

EmittedInOrder ==
    [i \in 1..Len(flat.refs) |-> <<flat.refs[i].title, flat.refs[i].article_href>>]

Flattened == flat # Pending

OutsideMalformed ==
    { p \in ArticleLeaves : \A m \in Malformed : ~IsPrefix(m, p) }

EmittedTitles == { flat.refs[i].title : i \in 1..Len(flat.refs) }

\* C5: a node without 'text' stops only its own subtree: every article leaf
\* outside the subtrees of the malformed nodes is still emitted and the
\* listing is not abandoned.
C5_OnlySubtreeHalted ==
    (Flattened /\ IsTree /\ Has(Root, "text") /\ Has(Root, "nodes") /\ Malformed # {})
        => /\ flat.kind = "list"
           /\ \A p \in OutsideMalformed : NodeAt(Root, p).text \in EmittedTitles

RECURSIVE JoinAll(_)
\* ' ^ '.join(names) for a non-empty sequence of names.
JoinAll(names) ==
    IF Len(names) = 1 THEN names[1]
    ELSE JoinAll(SubSeq(names, 1, Len(names) - 1)) \o SEP \o names[Len(names)]

\* The 'text' of the ancestors of the node at a path, the root first.
AncestorTexts(p) == [i \in 1..Len(p) |-> NodeAt(Root, SubSeq(p, 1, i - 1)).text]

\* C6: every emitted record is the record of a leaf whose title is the leaf's
\* own text and whose list_name is the texts of the leaf's ancestors, from the
\* listing root down to the leaf's parent, joined by " ^ ".
C6_Breadcrumb ==
    (Flattened /\ flat.kind = "list") =>
        \A i \in 1..Len(flat.refs) :
            \E p \in NodePaths :
                /\ p # <<>> /\ IsLeaf(p)
                /\ Has(NodeAt(Root, p), "text") /\ Has(NodeAt(Root, p), "href")
                /\ flat.refs[i].title = NodeAt(Root, p).text
                /\ flat.refs[i].article_href = NodeAt(Root, p).href
                /\ flat.refs[i].list_name = JoinAll(AncestorTexts(p))

\* A leaf three levels below the root has been emitted, with a breadcrumb of
\* three names.
C6_Witness ==
    /\ Flattened /\ flat.kind = "list"
    /\ \E i \in 1..Len(flat.refs) :
          /\ flat.refs[i].title = Label(<<1, 1, 1>>)
          /\ flat.refs[i].list_name = ROOT_TEXT \o SEP \o Label(<<1>>) \o SEP \o Label(<<1, 1>>)

\* ------------------------------------------- paragraph budget as a machine
ParagraphLengths == {0, 48, 100, 1000, 2048, 2049}

InitContent ==
    /\ all_paragraphs \in SeqsUpTo(ParagraphLengths, MaxParagraphs)
    /\ section_content = Pending
    /\ articles_list = <<>>
    /\ flat = Pending
    /\ NoCrawl
    /\ NoStartup

Accumulate ==
    /\ section_content = Pending
    /\ section_content' = [kind |-> "done"] @@ SectionContent(all_paragraphs)
    /\ UNCHANGED <<all_paragraphs, flattenVars, crawlVars, startVars>>

NextContent == Accumulate

SpecContent == InitContent /\ [][NextContent]_vars
\* ------------------------------------------ properties of the paragraph loop
RECURSIVE PrefixLength(_, _)
\* The total length of the first n paragraphs.
PrefixLength(paragraphs, n) ==
    IF n = 0 THEN 0 ELSE PrefixLength(paragraphs, n - 1) + paragraphs[n]

\* The length of the longest prefix of the paragraphs that fits the cap.
LongestFittingPrefix(paragraphs) ==
    CHOOSE n \in 0..Len(paragraphs) :
        /\ PrefixLength(paragraphs, n) <= MAX_PARAGRAPH_LENGTH
        /\ \A m \in (n + 1)..Len(paragraphs) :
              PrefixLength(paragraphs, m) > MAX_PARAGRAPH_LENGTH

Accumulated == section_content # Pending

\* C7: the content of a section is its paragraphs 1..k in order, whole, where
\* 1..k is the longest prefix whose total length is at most 2048; its length
\* never exceeds 2048; lengths [1000, 1000, 100] give 2000 and [2049] gives
\* the empty content.
C7_LongestPrefixUnderCap ==
    Accumulated =>
        LET k == LongestFittingPrefix(all_paragraphs)
        IN /\ section_content.kept = [i \in 1..k |-> i]
           /\ section_content.length = PrefixLength(all_paragraphs, k)
           /\ section_content.length <= MAX_PARAGRAPH_LENGTH
           /\ (all_paragraphs = <<1000, 1000, 100>> => section_content.length = 2000)
           /\ (all_paragraphs = <<2049>> => section_content.kept = <<>>)

\* A section where a paragraph was dropped for exceeding the cap and a later
\* paragraph, which would have fitted, was dropped with it.
C7_Witness ==
    /\ Accumulated
    /\ section_content.kept # <<>>
    /\ \E j \in 1..Len(all_paragraphs) :
          /\ j > Len(section_content.kept) + 1
          /\ section_content.length + all_paragraphs[j] <= MAX_PARAGRAPH_LENGTH

\* ---------------------------------------------------- __main__ as a machine
InitStartup ==
    /\ root_page \in RootPages
    /\ StartupStart
    /\ articles_list = <<>>
    /\ flat = Pending
    /\ all_paragraphs = <<>>
    /\ section_content = Pending
    /\ NoCrawl

\* main_page = asyncio.run(get_page(ROOT_URL))
GetPage ==
    /\ boot = "get_page"
    /\ main_page' = get_page(root_page)
    /\ boot' = "parse_categories"
    /\ UNCHANGED <<root_page, categories, tasks, root_log, flattenVars, contentVars, crawlVars>>

\* categories = parse_categories(main_page). An exception of the constructor
\* is raised before the try block and ends the program.
ParseCategories ==
    /\ boot = "parse_categories"
    /\ \E bs \in BeautifulSoup(main_page) :
          IF bs.kind = "raises"
          THEN /\ boot' = "raised"
               /\ root_log' = IF Falsy(main_page) THEN <<"Main page is empty">> ELSE <<>>
               /\ UNCHANGED categories
          ELSE /\ boot' = "bulk_crawl_and_store"
               /\ root_log' = parse_categories(main_page, bs).logged
               /\ categories' = parse_categories(main_page, bs).returns
    /\ UNCHANGED <<root_page, main_page, tasks, flattenVars, contentVars, crawlVars>>

\* The loop of bulk_crawl_and_store over categories: one task for each
\* descriptor. Iterating None raises.
CreateTasks ==
    /\ boot = "bulk_crawl_and_store"
    /\ IF categories = NoneValue
       THEN boot' = "raised" /\ UNCHANGED tasks
       ELSE boot' = "gather" /\ tasks' = categories.items
    /\ UNCHANGED <<root_page, main_page, categories, root_log, flattenVars, contentVars, crawlVars>>

\* await asyncio.gather(*tasks): with no task it returns at once and the
\* program completes; otherwise the pipelines run.
Gather ==
    /\ boot = "gather"
    /\ boot' = IF tasks = <<>> THEN "completed" ELSE "crawling"
    /\ UNCHANGED <<root_page, main_page, categories, tasks, root_log,
                   flattenVars, contentVars, crawlVars>>

NextStartup ==
    \/ GetPage
    \/ ParseCategories
    \/ CreateTasks
    \/ Gather

SpecStartup == InitStartup /\ [][NextStartup]_vars

\* ------------------------------------------------- properties of the startup
\* parse_categories has been called on main_page and is over.
Parsed == boot \notin {"get_page", "parse_categories"}

\* The page has no navigation container, or a subcategory anchor of it has an
\* href without '='.
Unparseable(page) ==
    /\ page # NoneValue /\ ~page.empty
    /\ \/ ~page.container
       \/ \E i \in 1..Len(page.children) :
             \E j \in 1..Len(page.children[i].anchors) :
                LET a == page.children[i].anchors[j]
                IN /\ ~a.main_menu_item
                   /\ "href" \in DOMAIN a
                   /\ Len(split(a.href, "=")) < 2

\* C11: on an empty or absent navigation page parse_categories logs the
\* condition and returns an empty list, and the crawl that follows runs over
\* zero categories and completes without error; a page without the container
\* or with a subcategory href without '=' gives a parse failure, which is not
\* the empty list.
C11_EmptyPageGivesEmptyList ==
    /\ (Parsed /\ Falsy(main_page))
          => /\ "Main page is empty" \in { root_log[i] : i \in 1..Len(root_log) }
             /\ categories = List(<<>>)
             /\ tasks = <<>>
             /\ boot # "raised"
    /\ (Parsed /\ Unparseable(main_page))
          => /\ categories = NoneValue
             /\ categories # List(<<>>)
====
